---------------------------- MODULE Spec2Model ----------------------------
(***************************************************************************)
(* Verification model of SCALib's numerical core:                          *)
(*   - scalib/src/belief_propagation.rs : the group-theory helpers, the    *)
(*     Walsh-Hadamard transform, the function-node kernels, the variable   *)
(*     update and the run_bp scheduler;                                    *)
(*   - scaffe/src/ttest.rs : the one-pass moment accumulator.              *)
(*                                                                         *)
(* Several specifications share the module, one per subsystem:            *)
(*   SpecHelpers : prime_factors / test_gen / find_gen / gen_log_table     *)
(*   SpecFwht    : fwht applied repeatedly to a vector                     *)
(*   SpecKernel  : one task of update_functions on one function node       *)
(*   Spec        : run_bp on a family of small factor graphs, its tasks    *)
(*                 interleaved as the thread pool may run them             *)
(*   SpecTtest   : Ttest::new followed by calls of update, stepped row by  *)
(*                 row, sample by sample and order by order                *)
(* Each specification keeps the variables of the others at their idle      *)
(* values.                                                                 *)
(***************************************************************************)
EXTENDS Integers, Sequences, FiniteSets, TLC

VARIABLES
    \* --- group-theory helpers -------------------------------------------
    h_arg,      \* the u32 argument (order for prime_factors, p otherwise)
    h_op,       \* "idle" or the helper that has been called
    h_res,      \* the Vec<u32> the helper returned (<<>> when it panicked)
    h_panic,    \* TRUE when the call panicked (index out of bounds)
    \* --- Walsh-Hadamard transform ---------------------------------------
    w_len,      \* len argument of fwht
    w_orig,     \* the vector before any transform
    w_a,        \* the vector, transformed in place
    w_count,    \* number of fwht applications so far
    \* --- one function node under update_functions -----------------------
    k_function, \* the function node
    k_edge,     \* the messages on its edges, in slot order
    k_pre,      \* the messages before the update
    k_kernel,   \* the kernel update_functions dispatched to
    k_pc,       \* "ready", "done" or "panic"
    \* --- run_bp ----------------------------------------------------------
    b_functions,  \* functions: &[Func]
    b_variables,  \* variables: &mut [Var]
    b_it,         \* it: number of iterations asked for
    b_edge,       \* edge: number of edges of the graph
    b_nc,         \* nc: size of the field
    b_n,          \* n: number of copies of the graph (n_runs)
    b_edges,      \* edges: Vec<Array2<f64>>, the message of every edge
    b_pc,         \* "call", "loop", "func", "var", "returned", "panicked"
    b_iter,       \* iterations of the for loop completed
    b_active,     \* the tasks of the current phase that are running
    b_done,       \* the tasks of the current phase that have finished
    b_result,     \* "none" until run_bp returns, then "Ok" or "Err"
    b_begun,      \* history: [f |-> ..., v |-> ...] tasks begun per node
    b_ended,      \* history: tasks finished per node
    \* --- Ttest (moment accumulator) --------------------------------------
    t_ns,         \* self.ns
    t_d,          \* self.d
    t_cs,         \* self.cs, axes (class, trace sample, order)
    t_n_samples,  \* self.n_samples
    t_pc,         \* "ready", "row", "sample", "order", "panicked"
    t_traces,     \* traces argument of the running update
    t_y,          \* y argument of the running update
    t_row,        \* index of the row update is at
    t_s,          \* index of the trace sample update is at
    t_pos,        \* position in cbs update is at
    t_n,          \* n: count of the row's class, post-increment
    t_delta_pows, \* delta_pows of the current (row, sample)
    t_calls,      \* number of calls of update so far
    t_given,      \* history: the labelled rows handed to update so far
    t_fed,        \* history: the labelled rows update has accumulated
    t_before      \* history: cs and n_samples before the current row

hvars == <<h_arg, h_op, h_res, h_panic>>
wvars == <<w_len, w_orig, w_a, w_count>>
kvars == <<k_function, k_edge, k_pre, k_kernel, k_pc>>
bvars == <<b_functions, b_variables, b_it, b_edge, b_nc, b_n, b_edges,
           b_pc, b_iter, b_active, b_done, b_result, b_begun, b_ended>>
tvars == <<t_ns, t_d, t_cs, t_n_samples, t_pc, t_traces, t_y, t_row, t_s,
           t_pos, t_n, t_delta_pows, t_calls, t_given, t_fed, t_before>>
vars  == <<hvars, wvars, kvars, bvars, tvars>>

(***************************************************************************)
(* Bounds of the model.                                                    *)
(***************************************************************************)
\* largest argument handed to the group-theory helpers
MaxArg == 191
\* fwht is applied to vectors of length 2^0 .. 2^MaxLog
MaxLog == 2
\* fwht input entries range over -MaxEntry .. MaxEntry
MaxEntry == 1
\* a single function node is updated for nc in 2 .. KMaxNc
KMaxNc == 5
\* ... and for n_runs in 1 .. KMaxRuns
KMaxRuns == 2
\* run_bp is called with nc in 2 .. BMaxNc
BMaxNc == 4
\* ... with n (n_runs) in 1 .. BMaxRuns
BMaxRuns == 2
\* ... and with it in 0 .. MaxIt
MaxIt == 2

\* a Ttest is created for ns in 1 .. MaxNs trace samples
MaxNs == 2
\* ... and for d in 1 .. MaxD
MaxD == 2
\* update is called on batches of 1 .. MaxBatch rows
MaxBatch == 3
\* ... at most MaxCalls times
MaxCalls == 2

(***************************************************************************)
(* Generic helpers.                                                        *)
(***************************************************************************)
RECURSIVE Pow(_, _)
Pow(b, e) == IF e = 0 THEN 1 ELSE b * Pow(b, e - 1)

\* 0-based read of a Vec / slice kept as a TLA+ sequence
At(s, i) == s[i + 1]

\* 0-based write
Put(s, i, x) == [s EXCEPT ![i + 1] = x]

(***************************************************************************)
(* Group-theory helpers (belief_propagation.rs 111-169).                   *)
(***************************************************************************)
\* (order as f64).sqrt() as u32 : the integer part of the square root
RECURSIVE sqrt_floor_from(_, _)
sqrt_floor_from(order, r) ==
    IF (r + 1) * (r + 1) > order THEN r ELSE sqrt_floor_from(order, r + 1)

sqrt_as_u32(order) == sqrt_floor_from(order, 0)

\* the while loop of prime_factors: p_test is NOT advanced after a hit, and
\* the loop stops once p_test exceeds (sqrt_order as u32) + 1
RECURSIVE prime_factors_loop(_, _, _, _)
prime_factors_loop(ord, p_test, limit, prime_list) ==
    IF ord # 1 /\ p_test <= limit
    THEN IF ord % p_test = 0
         THEN prime_factors_loop(ord \div p_test, p_test, limit,
                                 Append(prime_list, p_test))
         ELSE prime_factors_loop(ord, p_test + 1, limit, prime_list)
    ELSE prime_list

prime_factors(order) ==
    prime_factors_loop(order, 2, sqrt_as_u32(order) + 1, <<>>)

\* mod_exp::mod_exp(base, exponent, modulus): square-and-multiply
RECURSIVE mod_exp_loop(_, _, _, _)
mod_exp_loop(result, base, exponent, modulus) ==
    IF exponent <= 0 THEN result
    ELSE mod_exp_loop(IF exponent % 2 = 1 THEN (result * base) % modulus
                                          ELSE result,
                      (base * base) % modulus, exponent \div 2, modulus)

mod_exp(base, exponent, modulus) ==
    mod_exp_loop(1, base % modulus, exponent, modulus)

test_gen(q, prime_list, h) ==
    \A x \in 1..Len(prime_list) :
        mod_exp(h, q \div prime_list[x], q + 1) # 1

\* for i in 1..order { if test_gen(order, &prime_list, i) { push(i) } }: the
\* candidates are 1 .. order-1 = 1 .. p-2, kept in increasing order
find_gen(p) ==
    LET order == p - 1
        prime_list == prime_factors(order)
    IN  SelectSeq([i \in 1..(order - 1) |-> i],
                  LAMBDA i : test_gen(order, prime_list, i))

\* gen_list[0] panics (index out of bounds) when find_gen found nothing
gen_log_table_panics(p) == find_gen(p) = <<>>

gen_log_table(p) ==
    LET gen_list == find_gen(p)
    IN  IF gen_list = <<>> THEN <<>>
        ELSE [x \in 1..(p - 1) |-> mod_exp(gen_list[1], x - 1, p)]

(***************************************************************************)
(* Specification of the helpers: an argument is drawn, one helper is       *)
(* called on it.                                                           *)
(***************************************************************************)
HelpersIdle ==
    /\ h_arg = 0 /\ h_op = "idle" /\ h_res = <<>> /\ h_panic = FALSE

InitHelpers ==
    /\ h_arg \in 1..MaxArg
    /\ h_op = "idle"
    /\ h_res = <<>>
    /\ h_panic = FALSE

CallPrimeFactors ==
    /\ h_op = "idle"
    /\ h_op' = "prime_factors"
    /\ h_res' = prime_factors(h_arg)
    /\ UNCHANGED <<h_arg, h_panic>>

CallFindGen ==
    /\ h_op = "idle"
    /\ h_arg >= 2
    /\ h_op' = "find_gen"
    /\ h_res' = find_gen(h_arg)
    /\ UNCHANGED <<h_arg, h_panic>>

CallGenLogTable ==
    /\ h_op = "idle"
    /\ h_arg >= 2
    /\ h_op' = "gen_log_table"
    /\ h_res' = gen_log_table(h_arg)
    /\ h_panic' = gen_log_table_panics(h_arg)
    /\ UNCHANGED h_arg

(***************************************************************************)
(* Walsh-Hadamard transform (belief_propagation.rs 90-109).                *)
(***************************************************************************)
\* for j in i..(i + h): the butterfly on a[j], a[j + h]
RECURSIVE fwht_j(_, _, _, _)
fwht_j(a, j, jend, h) ==
    IF j >= jend THEN a
    ELSE LET x == At(a, j)
             y == At(a, j + h)
         IN fwht_j(Put(Put(a, j, x + y), j + h, x - y), j + 1, jend, h)

\* for mut i in 0..(len / (2 * h)): i *= 2 * h
RECURSIVE fwht_i(_, _, _, _)
fwht_i(a, i, len, h) ==
    IF i >= len \div (2 * h) THEN a
    ELSE fwht_i(fwht_j(a, i * 2 * h, i * 2 * h + h, h), i + 1, len, h)

\* while h < len { ...; h *= 2 }
RECURSIVE fwht_h(_, _, _)
fwht_h(a, len, h) ==
    IF h < len THEN fwht_h(fwht_i(a, 0, len, h), len, h * 2) ELSE a

\* mutant: the outer loop stops one stage early (h * 2 < len)
RECURSIVE fwht_h_short(_, _, _)
fwht_h_short(a, len, h) ==
    IF h * 2 < len THEN fwht_h_short(fwht_i(a, 0, len, h), len, h * 2) ELSE a

fwht_short(a, len) == fwht_h_short(a, len, 1)

fwht(a, len) == fwht_h(a, len, 1)

FwhtIdle ==
    /\ w_len = 0 /\ w_orig = <<>> /\ w_a = <<>> /\ w_count = 0

InitFwht ==
    /\ w_len \in {Pow(2, k) : k \in 0..MaxLog}
    /\ w_orig \in [1..w_len -> (-MaxEntry)..MaxEntry]
    /\ w_a = w_orig
    /\ w_count = 0

ApplyFwht ==
    /\ w_count < 2
    /\ w_a' = fwht(w_a, w_len)
    /\ w_count' = w_count + 1
    /\ UNCHANGED <<w_len, w_orig>>

(***************************************************************************)
(* f64 values of messages and distributions.                                *)
(*                                                                         *)
(* A non-negative f64 is kept as <<k, n, d>> = (n/d) * MIN_PROBA^k with    *)
(* n/d a reduced fraction; 0.0 is <<0,0,1>>.  MIN_PROBA = 1e-20 is below   *)
(* the f64 unit round-off 2^-53, so a sum absorbs every term that is a     *)
(* factor MIN_PROBA smaller than its largest term, which is what VAdd      *)
(* does; the fraction n/d itself is exact (rounding of the 53-bit          *)
(* mantissa is not modelled).  The IEEE specials are NaN and +Inf.         *)
(* FftOut stands for an entry written by the real-FFT stage of mults,      *)
(* whose f64 spectra have no exact counterpart here.                       *)
(***************************************************************************)
RECURSIVE GCD(_, _)
GCD(a, b) == IF b = 0 THEN a ELSE GCD(b, a % b)

Frac(k, n, d) == LET g == GCD(n, d) IN <<k, n \div g, d \div g>>

Zero == <<0, 0, 1>>
One == <<0, 1, 1>>
NaN == <<0, 0, 0>>
Inf == <<0, 1, 0>>
FftOut == <<0, 2, 0>>

\* the f64 of a small non-negative integer
F64(i) == <<0, i, 1>>

\* const MIN_PROBA: f64 = 1e-20
MIN_PROBA == <<1, 1, 1>>

IsFinite(x) == x[3] # 0
IsZero(x) == x = Zero

\* x + y
VAdd(x, y) ==
    IF x = FftOut \/ y = FftOut THEN FftOut
    ELSE IF x = NaN \/ y = NaN THEN NaN
    ELSE IF x = Inf \/ y = Inf THEN Inf
    ELSE IF IsZero(x) THEN y
    ELSE IF IsZero(y) THEN x
    ELSE IF x[1] < y[1] THEN x
    ELSE IF y[1] < x[1] THEN y
    ELSE LET g == GCD(x[3], y[3])
         IN  Frac(x[1], x[2] * (y[3] \div g) + y[2] * (x[3] \div g),
                  (x[3] \div g) * y[3])

\* x * y
VMul(x, y) ==
    IF x = FftOut \/ y = FftOut THEN FftOut
    ELSE IF x = NaN \/ y = NaN THEN NaN
    ELSE IF x = Inf \/ y = Inf
         THEN (IF IsZero(x) \/ IsZero(y) THEN NaN ELSE Inf)
    ELSE IF IsZero(x) \/ IsZero(y) THEN Zero
    ELSE LET g == GCD(x[2], y[3])
             h == GCD(y[2], x[3])
         IN  Frac(x[1] + y[1], (x[2] \div g) * (y[2] \div h),
                  (x[3] \div h) * (y[3] \div g))

\* x / y
VDiv(x, y) ==
    IF x = FftOut \/ y = FftOut THEN FftOut
    ELSE IF x = NaN \/ y = NaN THEN NaN
    ELSE IF x = Inf THEN (IF y = Inf THEN NaN ELSE Inf)
    ELSE IF y = Inf THEN Zero
    ELSE IF IsZero(y) THEN (IF IsZero(x) THEN NaN ELSE Inf)
    ELSE IF IsZero(x) THEN Zero
    ELSE LET g == GCD(x[2], y[2])
             h == GCD(y[3], x[3])
         IN  Frac(x[1] - y[1], (x[2] \div g) * (y[3] \div h),
                  (x[3] \div h) * (y[2] \div g))

\* x >= MIN_PROBA, for an ordinary x
GeMinProba(x) ==
    /\ ~IsZero(x)
    /\ \/ x[1] < 1
       \/ x[1] = 1 /\ x[2] >= x[3]

\* y.max(MIN_PROBA): f64::max returns the other operand when one is NaN
VMaxMinProba(y) ==
    IF y = FftOut THEN FftOut
    ELSE IF y = NaN THEN MIN_PROBA
    ELSE IF y = Inf THEN Inf
    ELSE IF GeMinProba(y) THEN y
    ELSE MIN_PROBA

\* mutant: the clamp is dropped
make_non_zero_row_off(row) == row

\* make_non_zero on one row: x.mapv_inplace(|y| y.max(MIN_PROBA))
make_non_zero_row(row) == [i \in 1..Len(row) |-> VMaxMinProba(row[i])]

make_non_zero(x) == [r \in 1..Len(x) |-> make_non_zero_row(x[r])]

RECURSIVE VSumFrom(_, _)
VSumFrom(row, i) ==
    IF i > Len(row) THEN Zero ELSE VAdd(row[i], VSumFrom(row, i + 1))

\* sum of a row (sum_axis(Axis(1)) on one row)
VSum(row) == VSumFrom(row, 1)

\* normalize_distri on one row: every entry divided by the row sum
normalize_row(row) ==
    LET s == VSum(row) IN [i \in 1..Len(row) |-> VDiv(row[i], s)]

normalize_distri(distri) == [r \in 1..Len(distri) |-> normalize_row(distri[r])]

\* element-wise product and quotient of two rows
RowMul(a, b) == [i \in 1..Len(a) |-> VMul(a[i], b[i])]
RowDiv(a, b) == [i \in 1..Len(a) |-> VDiv(a[i], b[i])]

\* a row of nc copies of x
Fill(nc, x) == [i \in 1..nc |-> x]

(***************************************************************************)
(* Bitwise operators on u32 (only small operands occur).                   *)
(***************************************************************************)
RECURSIVE BitXor(_, _)
BitXor(a, b) ==
    IF a = 0 THEN b
    ELSE IF b = 0 THEN a
    ELSE (((a % 2) + (b % 2)) % 2) + 2 * BitXor(a \div 2, b \div 2)

RECURSIVE BitAnd(_, _)
BitAnd(a, b) ==
    IF a = 0 \/ b = 0 THEN 0
    ELSE ((a % 2) * (b % 2)) + 2 * BitAnd(a \div 2, b \div 2)

(***************************************************************************)
(* Function-node kernels (belief_propagation.rs 255-595).                  *)
(*                                                                         *)
(* A message (Array2<f64>, shape (n_runs, nc)) is a sequence of rows; the  *)
(* Vec of messages handed to a function is in slot order                   *)
(* [output, input1, input2].  A function is a record                       *)
(* [neighboors, kind, values]: values is the per-run constant of a CST     *)
(* kind, the table of a LOOKUP, and empty otherwise.                       *)
(***************************************************************************)
CstKinds == {"XORCST", "ANDCST", "ADDCST", "MULCST"}

\* shape()[0] and shape()[1] of a message
RunsOf(msg) == Len(msg)
NcOf(msg) == Len(msg[1])

\* mutant: ADDCST subtracts the constant instead of adding it
cst_o_sub(kind, i1, value, nc) ==
    CASE kind = "XORCST" -> BitXor(i1, value)
      [] kind = "ANDCST" -> BitAnd(i1, value)
      [] kind = "ADDCST" -> (i1 + nc - (value % nc)) % nc
      [] kind = "MULCST" -> (i1 * value) % nc

\* mutant: XORCST ignores the constant
cst_o_noxor(kind, i1, value, nc) ==
    CASE kind = "XORCST" -> i1
      [] kind = "ANDCST" -> BitAnd(i1, value)
      [] kind = "ADDCST" -> (i1 + value) % nc
      [] kind = "MULCST" -> (i1 * value) % nc

\* the output class o of input class i1 (lines 304-314)
cst_o(kind, i1, value, nc) ==
    CASE kind = "XORCST" -> BitXor(i1, value)
      [] kind = "ANDCST" -> BitAnd(i1, value)
      [] kind = "ADDCST" -> (i1 + value) % nc
      [] kind = "MULCST" -> (i1 * value) % nc

\* for i1 in 0..nc { in1_scratch[i1] += output_msg[o];
\*                   out_scratch[o] += input1_msg[i1]; }
\* os[i1] is the class o of i1; indexing a row at o >= nc panics
RECURSIVE unary_loop(_, _, _, _, _, _, _)
unary_loop(os, i1, nc, input1_msg, output_msg, in1_scratch, out_scratch) ==
    IF i1 >= nc
    THEN [in1 |-> in1_scratch, out |-> out_scratch, panic |-> FALSE]
    ELSE LET o == At(os, i1)
         IN IF o >= nc
            THEN [in1 |-> input1_msg, out |-> output_msg, panic |-> TRUE]
            ELSE unary_loop(os, i1 + 1, nc, input1_msg, output_msg,
                     Put(in1_scratch, i1,
                         VAdd(At(in1_scratch, i1), At(output_msg, o))),
                     Put(out_scratch, o,
                         VAdd(At(out_scratch, o), At(input1_msg, i1))))

\* mutant: the scratch rows are not written back
unary_row_nowrite(os, nc, input1_msg, output_msg) ==
    [in1 |-> input1_msg, out |-> output_msg, panic |-> FALSE]

\* one run of a CST or LOOKUP kernel: scratch rows zeroed, loop, then
\* input1_msg.assign(in1_msg_scratch); output_msg.assign(out_msg_scratch)
unary_row(os, nc, input1_msg, output_msg) ==
    unary_loop(os, 0, nc, input1_msg, output_msg,
               Fill(nc, Zero), Fill(nc, Zero))

\* FuncType::XORCST | ANDCST | ADDCST | MULCST arm (lines 284-322)
cst_kernel(function, edge) ==
    LET output_msg == edge[1]
        input1_msg == edge[2]
        nc == NcOf(input1_msg)
        runs == 1..RunsOf(input1_msg)
        res == [r \in runs |->
                  unary_row([x \in 1..nc |->
                                cst_o(function.kind, x - 1,
                                      function.values[r], nc)],
                            nc, input1_msg[r], output_msg[r])]
    IN [edge |-> << [r \in runs |-> res[r].out],
                    [r \in runs |-> res[r].in1] >>,
        panic |-> \E r \in runs : res[r].panic]

\* FuncType::LOOKUP arm (lines 323-345): o = table[i1]
lookup_kernel(function, edge) ==
    LET output_msg == edge[1]
        input1_msg == edge[2]
        nc == NcOf(input1_msg)
        runs == 1..RunsOf(input1_msg)
        res == [r \in runs |->
                  unary_row(function.values, nc, input1_msg[r], output_msg[r])]
    IN [edge |-> << [r \in runs |-> res[r].out],
                    [r \in runs |-> res[r].in1] >>,
        panic |-> \E r \in runs : res[r].panic]

\* the class o of (i1, i2) in naive (lines 371-377)
naive_o(kind, i1, i2, nc) ==
    IF kind = "AND" THEN BitAnd(i1, i2) ELSE (i1 * i2) % nc

\* the three accumulations of one (i1, i2) pair (lines 378-380, 472-474)
accumulate(s, i1, i2, o, input1_msg, input2_msg, output_msg) ==
    [in1 |-> Put(s.in1, i1, VAdd(At(s.in1, i1),
                     VMul(At(input2_msg, i2), At(output_msg, o)))),
     in2 |-> Put(s.in2, i2, VAdd(At(s.in2, i2),
                     VMul(At(input1_msg, i1), At(output_msg, o)))),
     out |-> Put(s.out, o, VAdd(At(s.out, o),
                     VMul(At(input1_msg, i1), At(input2_msg, i2))))]

\* for i1 in i1..i1end { for i2 in i2..i2end { ... } } over the pairs in
\* row-major order; i2lo is where the inner loop restarts
RECURSIVE pair_loop(_, _, _, _, _, _, _, _, _, _, _)
pair_loop(kind, nc, i1, i1end, i2, i2lo, i2end, in1, in2, out, s) ==
    IF i1 >= i1end THEN s
    ELSE IF i2 >= i2end
         THEN pair_loop(kind, nc, i1 + 1, i1end, i2lo, i2lo, i2end,
                        in1, in2, out, s)
         ELSE pair_loop(kind, nc, i1, i1end, i2 + 1, i2lo, i2end,
                        in1, in2, out,
                        accumulate(s, i1, i2, naive_o(kind, i1, i2, nc),
                                   in1, in2, out))

ZeroScratch(nc) ==
    [in1 |-> Fill(nc, Zero), in2 |-> Fill(nc, Zero), out |-> Fill(nc, Zero)]

\* one run of naive (lines 364-385): all nc * nc pairs
naive_row(kind, nc, input1_msg, input2_msg, output_msg) ==
    pair_loop(kind, nc, 0, nc, 0, 0, nc,
              input1_msg, input2_msg, output_msg, ZeroScratch(nc))

\* naive (lines 348-388)
naive(edge, kind) ==
    LET output_msg == edge[1]
        input1_msg == edge[2]
        input2_msg == edge[3]
        nc == NcOf(input1_msg)
        runs == 1..RunsOf(input1_msg)
        res == [r \in runs |->
                  naive_row(kind, nc, input1_msg[r], input2_msg[r],
                            output_msg[r])]
    IN << [r \in runs |-> res[r].out],
          [r \in runs |-> res[r].in1],
          [r \in runs |-> res[r].in2] >>

\* mutant: the second loop starts at i1 = 0 and counts the pair (0, 0) twice
mults_zero_row_twice(nc, input1_msg, input2_msg, output_msg) ==
    LET s1 == pair_loop("MUL", nc, 0, 1, 0, 0, nc,
                        input1_msg, input2_msg, output_msg, ZeroScratch(nc))
        s2 == pair_loop("MUL", nc, 0, nc, 0, 0, 1,
                        input1_msg, input2_msg, output_msg, s1)
    IN [in1 |-> Put(input1_msg, 0, At(s2.in1, 0)),
        in2 |-> Put(input2_msg, 0, At(s2.in2, 0)),
        out |-> Put(output_msg, 0, At(s2.out, 0))]

\* one run of the 0-th entry pass of mults (lines 462-490): the pairs
\* (0, i2) for i2 in 0..nc, then (i1, 0) for i1 in 1..nc; only entry 0 of
\* each message is written back
mults_zero_row(nc, input1_msg, input2_msg, output_msg) ==
    LET s1 == pair_loop("MUL", nc, 0, 1, 0, 0, nc,
                        input1_msg, input2_msg, output_msg, ZeroScratch(nc))
        s2 == pair_loop("MUL", nc, 1, nc, 0, 0, 1,
                        input1_msg, input2_msg, output_msg, s1)
    IN [in1 |-> Put(input1_msg, 0, At(s2.in1, 0)),
        in2 |-> Put(input2_msg, 0, At(s2.in2, 0)),
        out |-> Put(output_msg, 0, At(s2.out, 0))]

\* "Applies the alog" (lines 507-516): input_perm[i] = tmp[log_table[i-1]]
alog_row(row, log_table) ==
    [x \in 1..Len(row) |->
        IF x = 1 THEN row[1] ELSE At(row, log_table[x - 1])]

\* the real-FFT stage (lines 523-571) rewrites entries 1..nc-1 of the row
fft_stage_row(row) == [x \in 1..Len(row) |-> IF x = 1 THEN row[1] ELSE FftOut]

\* "Applies the log" (lines 578-588): for i in 1..nc, in order,
\* input_perm[log_table[i-1]] = tmp[i]
RECURSIVE log_loop(_, _, _, _)
log_loop(perm, tmp, log_table, i) ==
    IF i >= Len(tmp) THEN perm
    ELSE log_loop(Put(perm, log_table[i], At(tmp, i)), tmp, log_table, i + 1)

log_row(row, log_table) == log_loop(row, row, log_table, 1)

\* mults (lines 444-595); gen_log_table panics when no generator is found
mults(edge) ==
    LET output_msg == edge[1]
        input1_msg == edge[2]
        input2_msg == edge[3]
        nc == NcOf(input1_msg)
        runs == 1..RunsOf(input1_msg)
        z == [r \in runs |->
                mults_zero_row(nc, input1_msg[r], input2_msg[r], output_msg[r])]
        log_table == gen_log_table(nc)
        rest(row) == log_row(fft_stage_row(alog_row(row, log_table)), log_table)
    IN IF gen_log_table_panics(nc)
       THEN [edge |-> edge, panic |-> TRUE]
       ELSE [edge |-> << [r \in runs |-> rest(z[r].out)],
                         [r \in runs |-> rest(z[r].in1)],
                         [r \in runs |-> rest(z[r].in2)] >>,
             panic |-> FALSE]

\* mutant: the fast kernel is chosen for every nc
mul_uses_mults_always(nc) == TRUE

\* the MUL arm's test (line 277): prime_factors(nc).len() == 0
mul_uses_mults(nc) == Len(prime_factors(nc)) = 0

\* one task of update_functions (lines 263-346): the kernel chosen for the
\* function, the messages it leaves on the function's edges, and whether
\* the task panicked (try_into().unwrap() on a Vec of the wrong length,
\* edge[0] on an empty Vec, an index out of bounds)
function_update(function, edge) ==
    LET kind == function.kind
        keep(kernel) == [edge |-> edge, kernel |-> kernel, panic |-> TRUE]
    IN CASE kind = "AND" ->
              IF Len(edge) # 3 THEN keep("naive")
              ELSE [edge |-> naive(edge, kind), kernel |-> "naive",
                    panic |-> FALSE]
         [] kind = "MUL" ->
              IF Len(edge) = 0 THEN keep("none")
              ELSE IF mul_uses_mults(NcOf(edge[1]))
                   THEN IF Len(edge) # 3 THEN keep("mults")
                        ELSE LET m == mults(edge)
                             IN [edge |-> m.edge, kernel |-> "mults",
                                 panic |-> m.panic]
                   ELSE IF Len(edge) # 3 THEN keep("naive")
                        ELSE [edge |-> naive(edge, kind), kernel |-> "naive",
                              panic |-> FALSE]
         [] kind \in CstKinds ->
              IF Len(edge) # 2 THEN keep("cst")
              ELSE LET c == cst_kernel(function, edge)
                   IN [edge |-> IF c.panic THEN edge ELSE c.edge,
                       kernel |-> "cst", panic |-> c.panic]
         [] kind = "LOOKUP" ->
              IF Len(edge) # 2 THEN keep("lookup")
              ELSE LET c == lookup_kernel(function, edge)
                   IN [edge |-> IF c.panic THEN edge ELSE c.edge,
                       kernel |-> "lookup", panic |-> c.panic]

(***************************************************************************)
(* Specification of one function node: a function and the messages on its  *)
(* edges are drawn, update_functions runs the function's task once.        *)
(***************************************************************************)
NoFunction == [neighboors |-> <<>>, kind |-> "none", values |-> <<>>]

KernelIdle ==
    /\ k_function = NoFunction /\ k_edge = <<>> /\ k_pre = <<>>
    /\ k_kernel = "none" /\ k_pc = "idle"

\* the message patterns: every entry a distinct positive number, all ones,
\* or one-hot rows whose hot class moves with the edge and the run
Patterns(nc) == {<<"tags", 0>>, <<"ones", 0>>} \cup {<<"hot", x>> : x \in 0..(nc - 1)}

PatternEntry(pat, nc, n, e, r, i) ==
    CASE pat[1] = "tags" -> F64(1 + i + nc * (r + n * e))
      [] pat[1] = "ones" -> One
      [] pat[1] = "hot" -> IF i = (pat[2] + e + r) % nc THEN One ELSE Zero

PatternMsg(pat, nc, n, e) ==
    [r \in 1..n |-> [i \in 1..nc |-> PatternEntry(pat, nc, n, e, r - 1, i - 1)]]

\* the permutation tables of 0..nc-1 (LOOKUP requires a bijective table)
Tables(nc) ==
    {t \in [1..nc -> 0..(nc - 1)] : \A x, y \in 1..nc : t[x] = t[y] => x = y}

\* the payloads a function of this kind can carry
Payloads(kind, nc, n) ==
    IF kind \in CstKinds THEN [1..n -> 0..(nc - 1)]
    ELSE IF kind = "LOOKUP" THEN Tables(nc)
    ELSE {<<>>}

KKinds == {"AND", "MUL", "LOOKUP"} \cup CstKinds

InitKernel ==
    \E nc \in 2..KMaxNc, n \in 1..KMaxRuns, kind \in KKinds, ne \in 2..3 :
      \E values \in Payloads(kind, nc, n), pat \in Patterns(nc) :
        /\ k_function = [neighboors |-> [x \in 1..ne |-> x - 1],
                         kind |-> kind, values |-> values]
        /\ k_edge = [x \in 1..ne |-> PatternMsg(pat, nc, n, x - 1)]
        /\ k_pre = k_edge
        /\ k_kernel = "none"
        /\ k_pc = "ready"

FunctionUpdate ==
    /\ k_pc = "ready"
    /\ LET u == function_update(k_function, k_edge)
       IN /\ k_edge' = u.edge
          /\ k_kernel' = u.kernel
          /\ k_pc' = IF u.panic THEN "panic" ELSE "done"
    /\ UNCHANGED <<k_function, k_pre>>

(***************************************************************************)
(* Variable update (belief_propagation.rs 172-253).                        *)
(*                                                                         *)
(* A variable is a record [neighboors, vartype, distri_orig,               *)
(* distri_current]; distri_orig is <<>> for the NotProfile kinds.          *)
(***************************************************************************)
IsSingle(vartype) == vartype \in {"ProfileSingle", "NotProfileSingle"}
IsProfile(vartype) == vartype \in {"ProfilePara", "ProfileSingle"}

\* update_para_var_distri: *distri *= edge; normalize_distri(distri)
update_para_var_distri(distri, edge) ==
    normalize_distri([r \in 1..Len(distri) |-> RowMul(distri[r], edge[r])])

\* neighboors.iter().for_each(|msg| update_para_var_distri(..., msg))
RECURSIVE absorb_para(_, _, _)
absorb_para(distri, msgs, j) ==
    IF j > Len(msgs) THEN distri
    ELSE absorb_para(update_para_var_distri(distri, msgs[j]), msgs, j + 1)

\* msg.outer_iter().for_each(|msg| { *distri_current *= &msg;
\*                                   normalize_distri(distri_current) })
RECURSIVE absorb_rows(_, _, _)
absorb_rows(distri, msg, r) ==
    IF r > Len(msg) THEN distri
    ELSE absorb_rows(normalize_distri(<<RowMul(distri[1], msg[r])>>), msg, r + 1)

RECURSIVE absorb_single(_, _, _)
absorb_single(distri, msgs, j) ==
    IF j > Len(msgs) THEN distri
    ELSE absorb_single(absorb_rows(distri, msgs[j], 1), msgs, j + 1)

\* the first match of the task (lines 199-236)
absorb(var, msgs, nc) ==
    LET start == IF IsProfile(var.vartype) THEN var.distri_orig
                 ELSE [r \in 1..Len(var.distri_current) |-> Fill(nc, One)]
    IN IF IsSingle(var.vartype) THEN absorb_single(start, msgs, 1)
       ELSE absorb_para(start, msgs, 1)

\* mutant: the outgoing message is the belief itself, not divided by the
\* incoming message
emit_nodiv(distri_current, msg) ==
    make_non_zero(normalize_distri(
        [r \in 1..Len(msg) |->
            IF Len(distri_current) = 1 THEN distri_current[1]
            ELSE distri_current[r]]))

\* one outgoing message (lines 244-247): distri_current broadcast to the
\* message's shape, msg = distri / msg, normalize, clamp
emit(distri_current, msg) ==
    make_non_zero(normalize_distri(
        [r \in 1..Len(msg) |->
            RowDiv(IF Len(distri_current) = 1 THEN distri_current[1]
                   ELSE distri_current[r], msg[r])]))

\* one task of update_variables (lines 197-252)
variable_update(var, msgs, nc) ==
    LET d == absorb(var, msgs, nc)
    IN [distri_current |-> make_non_zero(d),
        msgs |-> [j \in 1..Len(msgs) |-> emit(d, msgs[j])]]

(***************************************************************************)
(* run_bp (belief_propagation.rs 633-729).                                 *)
(***************************************************************************)
\* how many times edge id e occurs in the neighbor lists of nodes
Occurrences(nodes, e) ==
    Cardinality(UNION {{<<i, j>> : j \in {k \in 1..Len(nodes[i].neighboors) :
                                             nodes[i].neighboors[k] = e}} :
                       i \in 1..Len(nodes)})

\* vec_funcs_id[*x] = ... / vec_vars_id[*x] = ... / edges[*x] index a Vec of
\* length edge: an id >= edge panics (lines 657-679)
setup_panics(functions, variables, edge) ==
    \/ \E i \in 1..Len(functions) : \E j \in 1..Len(functions[i].neighboors) :
          functions[i].neighboors[j] >= edge
    \/ \E i \in 1..Len(variables) : \E j \in 1..Len(variables[i].neighboors) :
          variables[i].neighboors[j] >= edge

\* distri_orig.broadcast(v.shape()): a Single prior is repeated on every run
broadcast(distri, n) ==
    [r \in 1..n |-> IF Len(distri) = 1 THEN distri[1] ELSE distri[r]]

\* lines 648 and 666-679: all ones, then the prior of every profiled
\* variable on each of its edges (a later variable overwrites an earlier)
initial_edges(variables, edge, nc, n) ==
    [x \in 1..edge |->
        LET owners == {i \in 1..Len(variables) :
                          /\ IsProfile(variables[i].vartype)
                          /\ \E j \in 1..Len(variables[i].neighboors) :
                                variables[i].neighboors[j] = x - 1}
            last == CHOOSE i \in owners : \A k \in owners : k <= i
        IN IF owners = {} THEN [r \in 1..n |-> Fill(nc, One)]
           ELSE broadcast(variables[last].distri_orig, n)]

\* mutant: the second take of an edge hands out the reference again
take_panics_off(nodes, edge) == FALSE

\* edge_opt_ref_mut[*e].take().unwrap() panics on the second take of an
\* edge (lines 685-695 and 697-707)
take_panics(nodes, edge) == \E e \in 0..(edge - 1) : Occurrences(nodes, e) > 1

\* the Vec<&mut Array2<f64>> of one node
edges_of(node, edges) ==
    [j \in 1..Len(node.neighboors) |-> At(edges, node.neighboors[j])]

\* the edges after one node wrote msgs back through its references
write_back(node, msgs, edges) ==
    [x \in 1..Len(edges) |->
        IF \E j \in 1..Len(node.neighboors) : node.neighboors[j] = x - 1
        THEN msgs[CHOOSE j \in 1..Len(node.neighboors) :
                     node.neighboors[j] = x - 1]
        ELSE edges[x]]

\* mutant: the variable phase does not wait for the function tasks
phase_joined_nowait(done, nodes) == TRUE

\* par_iter().for_each() returns once every task of the phase has finished
phase_joined(done, nodes) == done = 1..Len(nodes)

Bump(h, kind, i) == [h EXCEPT ![kind][i] = @ + 1]

BpIdle ==
    /\ b_functions = <<>> /\ b_variables = <<>> /\ b_it = 0 /\ b_edge = 0
    /\ b_nc = 0 /\ b_n = 0 /\ b_edges = <<>> /\ b_pc = "idle" /\ b_iter = 0
    /\ b_active = {} /\ b_done = {} /\ b_result = "none"
    /\ b_begun = <<>> /\ b_ended = <<>>

(***************************************************************************)
(* The graphs run_bp is called on.  Three tree-shaped base graphs:         *)
(*   "unary"  : var0 --1-- f0 --0-- var1          (f0 a CST kind / LOOKUP) *)
(*   "binary" : var0 --1-- f0 --0-- var2, var1 --2-- f0     (f0 AND / MUL) *)
(*   "chain"  : var0 --1-- f0 --0-- var1 --3-- f1 --2-- var2               *)
(* (slot order [output, input1, input2]); var0, and var1 of "binary", are  *)
(* profiled.  The valid graphs come with every payload, prior pattern,     *)
(* nc and n; the graphs with a broken topology come with one payload.      *)
(***************************************************************************)
Shapes == {"unary", "binary", "chain"}

BaseTopology(shape) ==
    CASE shape = "unary" ->
           [edge |-> 2, fn |-> << <<0, 1>> >>, vn |-> << <<1>>, <<0>> >>]
      [] shape = "binary" ->
           [edge |-> 3, fn |-> << <<0, 1, 2>> >>,
            vn |-> << <<1>>, <<2>>, <<0>> >>]
      [] shape = "chain" ->
           [edge |-> 4, fn |-> << <<0, 1>>, <<2, 3>> >>,
            vn |-> << <<1>>, <<0, 3>>, <<2>> >>]

Profiled(shape) ==
    CASE shape = "unary" -> <<TRUE, FALSE>>
      [] shape = "binary" -> <<TRUE, TRUE, FALSE>>
      [] shape = "chain" -> <<TRUE, FALSE, FALSE>>

DropLast(q) == SubSeq(q, 1, Len(q) - 1)

\* the topologies one edit away from t: a neighbor replaced by another
\* edge id (edge itself is out of range), a neighbor dropped or appended,
\* an edge added to the graph
Edits(t) ==
    LET fs == 1..Len(t.fn)
        vs == 1..Len(t.vn)
        ids == 0..t.edge
    IN UNION {
        UNION {{[t EXCEPT !.fn[f][j] = e] : j \in 1..Len(t.fn[f]), e \in ids}
               : f \in fs},
        UNION {{[t EXCEPT !.vn[v][j] = e] : j \in 1..Len(t.vn[v]), e \in ids}
               : v \in vs},
        {[t EXCEPT !.fn[f] = DropLast(@)] : f \in fs},
        {[t EXCEPT !.vn[v] = DropLast(@)] : v \in vs},
        {[t EXCEPT !.fn[f] = Append(@, e)] : f \in fs, e \in 0..(t.edge - 1)},
        {[t EXCEPT !.edge = @ + 1, !.fn[f] = Append(@, t.edge),
                   !.vn[v] = Append(@, t.edge)] : f \in fs, v \in vs},
        {[t EXCEPT !.edge = @ + 1]} }

BrokenTopologies(shape) == Edits(BaseTopology(shape)) \ {BaseTopology(shape)}

\* the payloads of run_bp's functions: per-run constants c, c+d, c+2d, ...
\* (mod nc) for a CST kind; the rotations and the reversal for a LOOKUP
BpPayloads(kind, nc, n) ==
    IF kind \in CstKinds
    THEN {[r \in 1..n |-> (c + (r - 1) * d) % nc] : c \in 0..(nc - 1), d \in 0..1}
    ELSE {[x \in 1..nc |-> (x - 1 + k) % nc] : k \in 0..(nc - 1)}
         \cup {[x \in 1..nc |-> nc - x]}

\* the kinds (with payloads) of the functions of a graph of this shape
UnaryFunctions(nc, n) ==
    UNION {{[kind |-> kind, values |-> values] : values \in BpPayloads(kind, nc, n)}
           : kind \in CstKinds \cup {"LOOKUP"}}

DefaultPayload(f, nc, n) ==
    \/ f.values = <<>>
    \/ f.kind \in CstKinds /\ \A r \in 1..n : f.values[r] = 1
    \/ f.kind = "LOOKUP" /\ \A x \in 1..nc : f.values[x] = x % nc

FunctionKinds(shape, nc, n) ==
    CASE shape = "unary" -> {<<k>> : k \in UnaryFunctions(nc, n)}
      [] shape = "binary" ->
           {<<[kind |-> k, values |-> <<>>]>> : k \in {"AND", "MUL"}}
      [] shape = "chain" ->
           {<<k, l>> : k \in {f \in UnaryFunctions(nc, n) : DefaultPayload(f, nc, n)},
                       l \in {[kind |-> "LOOKUP",
                               values |-> [x \in 1..nc |-> x % nc]],
                              [kind |-> "ADDCST",
                               values |-> [r \in 1..n |-> 1]]}}

\* one payload per kind, for the graphs with a broken topology
DefaultKinds(shape, nc, n) ==
    {ks \in FunctionKinds(shape, nc, n) :
        \A i \in 1..Len(ks) : DefaultPayload(ks[i], nc, n)}

\* the rows of the priors
PriorPatterns == {"uniform", "hot", "ramp", "raw"}

PriorRow(pat, nc, shift) ==
    [x \in 1..nc |->
        CASE pat = "uniform" -> Frac(0, 1, nc)
          [] pat = "hot" -> IF x - 1 = shift % nc THEN One ELSE Zero
          [] pat = "ramp" -> Frac(0, 2 * (((x - 1 + shift) % nc) + 1),
                                  nc * (nc + 1))
          [] pat = "raw" -> F64(((x - 1 + shift) % nc) + 1)]

\* which variables are Single rather than Para
SingleChoices == {"none", "profiled", "unprofiled"}

VarTypeOf(profiled, singles) ==
    IF profiled
    THEN (IF singles = "profiled" THEN "ProfileSingle" ELSE "ProfilePara")
    ELSE (IF singles = "unprofiled" THEN "NotProfileSingle"
          ELSE "NotProfilePara")

MakeVar(nb, vartype, pat, nc, n, v) ==
    LET rows == IF IsSingle(vartype) THEN 1 ELSE n
    IN [neighboors |-> nb,
        vartype |-> vartype,
        distri_orig |-> IF IsProfile(vartype)
                        THEN [r \in 1..rows |-> PriorRow(pat, nc, v + r - 1)]
                        ELSE <<>>,
        distri_current |-> [r \in 1..rows |-> Fill(nc, One)]]

\* the state at the call of run_bp(functions, variables, it, edge, nc, n)
CallRunBp(shape, t, ks, pat, singles, nc, n, it) ==
    /\ b_functions = [i \in 1..Len(t.fn) |->
                        [neighboors |-> t.fn[i], kind |-> ks[i].kind,
                         values |-> ks[i].values]]
    /\ b_variables = [i \in 1..Len(t.vn) |->
                        MakeVar(t.vn[i], VarTypeOf(Profiled(shape)[i], singles),
                                pat, nc, n, i - 1)]
    /\ b_it = it
    /\ b_edge = t.edge
    /\ b_nc = nc
    /\ b_n = n
    /\ b_edges = <<>>
    /\ b_pc = "call"
    /\ b_iter = 0
    /\ b_active = {}
    /\ b_done = {}
    /\ b_result = "none"
    /\ b_begun = [f |-> [i \in 1..Len(t.fn) |-> 0], v |-> [i \in 1..Len(t.vn) |-> 0]]
    /\ b_ended = [f |-> [i \in 1..Len(t.fn) |-> 0], v |-> [i \in 1..Len(t.vn) |-> 0]]

InitBp ==
    \E shape \in Shapes, it \in 0..MaxIt :
       \/ \E nc \in 2..BMaxNc, n \in 1..BMaxRuns, pat \in PriorPatterns,
             singles \in SingleChoices :
            \E ks \in FunctionKinds(shape, nc, n) :
               CallRunBp(shape, BaseTopology(shape), ks, pat, singles, nc, n, it)
       \/ \E t \in BrokenTopologies(shape) :
            \E ks \in DefaultKinds(shape, 2, 1) :
               CallRunBp(shape, t, ks, "uniform", "none", 2, 1, it)

\* lines 648-679
RunBpSetup ==
    /\ b_pc = "call"
    /\ IF setup_panics(b_functions, b_variables, b_edge)
       THEN /\ b_pc' = "panicked"
            /\ UNCHANGED b_edges
       ELSE /\ b_pc' = "loop"
            /\ b_edges' = initial_edges(b_variables, b_edge, b_nc, b_n)
    /\ UNCHANGED <<b_functions, b_variables, b_it, b_edge, b_nc, b_n, b_iter,
                   b_active, b_done, b_result, b_begun, b_ended>>

\* for _ in 0..it { bp_iter() }: the start of bp_iter (lines 685-696)
BeginIteration ==
    /\ b_pc = "loop"
    /\ b_iter < b_it
    /\ b_pc' = IF take_panics(b_functions, b_edge) THEN "panicked" ELSE "func"
    /\ b_active' = {}
    /\ b_done' = {}
    /\ UNCHANGED <<b_functions, b_variables, b_it, b_edge, b_nc, b_n, b_edges,
                   b_iter, b_result, b_begun, b_ended>>

\* a worker picks the task of function i
FuncBegin(i) ==
    /\ b_pc = "func"
    /\ i \notin b_active \cup b_done
    /\ b_active' = b_active \cup {i}
    /\ b_begun' = Bump(b_begun, "f", i)
    /\ UNCHANGED <<b_functions, b_variables, b_it, b_edge, b_nc, b_n, b_edges,
                   b_pc, b_iter, b_done, b_result, b_ended>>

\* the task of function i runs its kernel (lines 263-346)
FuncEnd(i) ==
    /\ b_pc = "func"
    /\ i \in b_active
    /\ LET u == function_update(b_functions[i],
                                edges_of(b_functions[i], b_edges))
       IN IF u.panic
          THEN /\ b_pc' = "panicked"
               /\ UNCHANGED <<b_edges, b_ended>>
          ELSE /\ b_pc' = b_pc
               /\ b_edges' = write_back(b_functions[i], u.edge, b_edges)
               /\ b_ended' = Bump(b_ended, "f", i)
    /\ b_active' = b_active \ {i}
    /\ b_done' = b_done \cup {i}
    /\ UNCHANGED <<b_functions, b_variables, b_it, b_edge, b_nc, b_n,
                   b_iter, b_result, b_begun>>

\* update_functions has returned; lines 697-708 up to the spawn of the
\* variable tasks
BeginVariablePhase ==
    /\ b_pc = "func"
    /\ phase_joined(b_done, b_functions)
    /\ b_pc' = IF take_panics(b_variables, b_edge) THEN "panicked" ELSE "var"
    /\ b_active' = {}
    /\ b_done' = {}
    /\ UNCHANGED <<b_functions, b_variables, b_it, b_edge, b_nc, b_n, b_edges,
                   b_iter, b_result, b_begun, b_ended>>

\* a worker picks the task of variable i
VarBegin(i) ==
    /\ b_pc = "var"
    /\ i \notin b_active \cup b_done
    /\ b_active' = b_active \cup {i}
    /\ b_begun' = Bump(b_begun, "v", i)
    /\ UNCHANGED <<b_functions, b_variables, b_it, b_edge, b_nc, b_n, b_edges,
                   b_pc, b_iter, b_done, b_result, b_ended>>

\* the task of variable i (lines 197-252)
VarEnd(i) ==
    /\ b_pc = "var"
    /\ i \in b_active
    /\ LET u == variable_update(b_variables[i],
                                edges_of(b_variables[i], b_edges), b_nc)
       IN /\ b_variables' = [b_variables EXCEPT
                                ![i].distri_current = u.distri_current]
          /\ b_edges' = write_back(b_variables[i], u.msgs, b_edges)
    /\ b_active' = b_active \ {i}
    /\ b_done' = b_done \cup {i}
    /\ b_ended' = Bump(b_ended, "v", i)
    /\ UNCHANGED <<b_functions, b_it, b_edge, b_nc, b_n, b_pc, b_iter,
                   b_result, b_begun>>

\* update_variables has returned: bp_iter is over
EndIteration ==
    /\ b_pc = "var"
    /\ phase_joined(b_done, b_variables)
    /\ b_pc' = "loop"
    /\ b_iter' = b_iter + 1
    /\ b_active' = {}
    /\ b_done' = {}
    /\ UNCHANGED <<b_functions, b_variables, b_it, b_edge, b_nc, b_n, b_edges,
                   b_result, b_begun, b_ended>>

\* the for loop is exhausted: Ok(()) (line 728)
Return ==
    /\ b_pc = "loop"
    /\ b_iter >= b_it
    /\ b_pc' = "returned"
    /\ b_result' = "Ok"
    /\ UNCHANGED <<b_functions, b_variables, b_it, b_edge, b_nc, b_n, b_edges,
                   b_iter, b_active, b_done, b_begun, b_ended>>

(***************************************************************************)
(* One-pass moment accumulator (scaffe/src/ttest.rs).                      *)
(*                                                                         *)
(* cs[c][s] is the row of 2*d central sums of class c at trace sample s    *)
(* (entry 0 is the mean); n_samples[c] counts the traces of class c.       *)
(* All sequences are 1-based here, read and written 0-based with At / Put. *)
(* The model keeps ns <= 20, so that axis_chunks_iter(Axis(0), 20) yields  *)
(* one chunk and the samples of a row are updated one after the other.     *)
(***************************************************************************)
\* -x
VNeg(x) == IF IsFinite(x) THEN <<x[1], 0 - x[2], x[3]>> ELSE x

\* x - y
VSub(x, y) == VAdd(x, VNeg(y))

\* x.powi(e), e >= 0
RECURSIVE VPowi(_, _)
VPowi(x, e) == IF e = 0 THEN One ELSE VMul(x, VPowi(x, e - 1))

\* num_integer::binomial(n, k)
RECURSIVE binomial(_, _)
binomial(n, k) ==
    IF k = 0 THEN 1 ELSE (binomial(n, k - 1) * (n - k + 1)) \div k

\* Ttest::new(ns, d)
Ttest_new(ns, d) ==
    [cs |-> [c \in 1..2 |-> [s \in 1..ns |-> [o \in 1..(2 * d) |-> Zero]]],
     n_samples |-> <<0, 0>>]

\* mutant: the orders are visited from 2 up to 2*d
orders_ascending(d) == [p \in 1..(2 * d - 1) |-> p + 1]

\* (2..((2 * self.d) + 1)).rev(): the orders 2*d, 2*d - 1, ..., 2
orders(d) == [p \in 1..(2 * d - 1) |-> 2 * d + 1 - p]

\* cbs: for every order j the factors (binomial(j, k) as f64, k), k in 1..j-1
cbs(d) ==
    [p \in 1..(2 * d - 1) |->
        LET j == orders(d)[p]
        IN [j |-> j,
            vec |-> [k \in 1..(j - 2) |-> [cb |-> F64(binomial(j, k)), k |-> k]]]]

\* (n - 1.0).powi(j) * (1.0 - (-1.0 / (n - 1.0)).powi(j - 1)); for n = 1 this
\* is 0 * infinity = NaN, which the guard n > 1.0 keeps out of cs
ttest_mult(j, n) ==
    IF n = 1 THEN NaN
    ELSE VMul(VPowi(F64(n - 1), j),
              VSub(One, VPowi(VDiv(F64(0 - 1), F64(n - 1)), j - 1)))

\* mults: one factor per entry of cbs
ttest_mults(d, n) == [p \in 1..(2 * d - 1) |-> ttest_mult(cbs(d)[p].j, n)]

\* delta = ((*traces as f64) - cs[0]) / (n as f64)
ttest_delta(cs, x, n) == VDiv(VSub(F64(x), At(cs, 0)), F64(n))

\* delta_pows[i] = delta ** (i + 1)
ttest_delta_pows(delta, d) == [i \in 1..(2 * d) |-> VPowi(delta, i)]

\* vec.iter().for_each(|(cb, k)| ...): the k-terms of order j, in order
RECURSIVE k_terms(_, _, _, _, _)
k_terms(cs, j, vec, delta_pows, x) ==
    IF x > Len(vec) THEN cs
    ELSE LET k == vec[x].k
             a == At(cs, j - k - 1)
             term == VMul(VMul(vec[x].cb, At(delta_pows, k - 1)), a)
         IN k_terms(Put(cs, j - 1, IF k % 2 = 1
                                   THEN VSub(At(cs, j - 1), term)
                                   ELSE VAdd(At(cs, j - 1), term)),
                    j, vec, delta_pows, x + 1)

\* the update of one order (lines 109-123)
order_update(cs, cb, mult, n, delta_pows) ==
    LET j == cb.j
        c1 == IF n > 1
              THEN Put(cs, j - 1,
                       VAdd(At(cs, j - 1), VMul(At(delta_pows, j - 1), mult)))
              ELSE cs
    IN k_terms(c1, j, cb.vec, delta_pows, 1)

\* cs[0] += delta
mean_update(cs, delta) == Put(cs, 0, VAdd(At(cs, 0), delta))

\* cbs.iter().zip(mults.iter()).for_each(...)
RECURSIVE orders_loop(_, _, _, _, _, _)
orders_loop(cs, cb, ms, n, delta_pows, p) ==
    IF p > Len(cb) THEN cs
    ELSE orders_loop(order_update(cs, cb[p], ms[p], n, delta_pows),
                     cb, ms, n, delta_pows, p + 1)

\* the update of one (row, trace sample) pair (lines 94-126)
sample_update(cs, x, n, d) ==
    LET delta == ttest_delta(cs, x, n)
    IN mean_update(orders_loop(cs, cbs(d), ttest_mults(d, n), n,
                               ttest_delta_pows(delta, d), 1),
                   delta)

Min(a, b) == IF a <= b THEN a ELSE b

\* cs.axis_iter_mut(Axis(0)).zip(traces.iter()): the zip stops at the
\* shorter of the ns rows of cs and the columns of the trace
n_zipped(cs_c, row) == Min(Len(cs_c), Len(row))

\* the samples of one row (lines 83-129)
row_update(cs_c, row, n, d) ==
    [s \in 1..Len(cs_c) |->
        IF s <= n_zipped(cs_c, row)
        THEN sample_update(cs_c[s], row[s], n, d)
        ELSE cs_c[s]]

\* mutant: the last row of the batch is not visited
n_rows_short(traces, y) == Min(Len(traces), Len(y)) - 1

\* traces.outer_iter().zip(y.outer_iter()): the rows update visits
n_rows(traces, y) == Min(Len(traces), Len(y))

\* mutant: every row is given the label of the first row
label_of_first(y, i) == y[1]

\* let y = *y.first().unwrap() as usize: the label of row i
label_of(y, i) == y[i]

\* mutant: the sums of the other class are sliced
slice_class_other(y) == 2 - y

\* self.cs.slice_mut(s![y, .., ..]): the class whose sums the row updates
slice_class(y) == y + 1

\* assert!(y <= 1)
label_ok(y) == y <= 1

\* update as a whole: the rows in order, stopping at a failed assertion
RECURSIVE rows_loop(_, _, _, _, _)
rows_loop(self, d, traces, y, i) ==
    IF i > n_rows(traces, y)
    THEN [cs |-> self.cs, n_samples |-> self.n_samples, panic |-> FALSE]
    ELSE IF ~label_ok(label_of(y, i))
    THEN [cs |-> self.cs, n_samples |-> self.n_samples, panic |-> TRUE]
    ELSE LET c == label_of(y, i)
             n == self.n_samples[c + 1] + 1
         IN rows_loop(
              [cs |-> [self.cs EXCEPT
                         ![slice_class(c)] = row_update(@, traces[i], n, d)],
               n_samples |-> [self.n_samples EXCEPT ![c + 1] = n]],
              d, traces, y, i + 1)

Ttest_update(self, d, traces, y) == rows_loop(self, d, traces, y, 1)

TtestIdle ==
    /\ t_ns = 0 /\ t_d = 0 /\ t_cs = <<>> /\ t_n_samples = <<>>
    /\ t_pc = "idle" /\ t_traces = <<>> /\ t_y = <<>> /\ t_row = 0
    /\ t_s = 0 /\ t_pos = 0 /\ t_n = 0 /\ t_delta_pows = <<>>
    /\ t_calls = 0 /\ t_given = <<>> /\ t_fed = <<>> /\ t_before = <<>>

(***************************************************************************)
(* The batches update is called on: len consecutive trace values from a     *)
(* start value (alternating in sign along the row), every 0/1 labelling,   *)
(* the labellings with one label 2, and rows one column short or long.     *)
(***************************************************************************)
TraceStarts == {1, 5}

\* one row of traces (i16)
TraceRow(x, cols) == [i \in 1..cols |-> IF i % 2 = 1 THEN x ELSE 0 - x]

Labellings(len) ==
    [1..len -> {0, 1}]
      \cup {[i \in 1..len |-> IF i = b THEN 2 ELSE 0] : b \in 1..len}

Batches(ns) ==
    UNION {{[traces |-> [i \in 1..len |-> TraceRow(x0 + i - 1, ns)],
             y |-> l] : x0 \in TraceStarts, l \in Labellings(len)} :
           len \in 1..MaxBatch}
      \cup {[traces |-> [i \in 1..len |-> TraceRow(i, cols)],
             y |-> [i \in 1..len |-> 0]] :
               len \in 1..MaxBatch, cols \in {ns - 1, ns + 1}}

\* the state after Ttest::new(ns, d)
InitTtest ==
    \E ns \in 1..MaxNs, d \in 1..MaxD :
        /\ t_ns = ns /\ t_d = d
        /\ t_cs = Ttest_new(ns, d).cs
        /\ t_n_samples = Ttest_new(ns, d).n_samples
        /\ t_pc = "ready" /\ t_traces = <<>> /\ t_y = <<>> /\ t_row = 0
        /\ t_s = 0 /\ t_pos = 0 /\ t_n = 0 /\ t_delta_pows = <<>>
        /\ t_calls = 0 /\ t_given = <<>> /\ t_fed = <<>> /\ t_before = <<>>

\* update(traces, y) is called (lines 43-56)
CallUpdate ==
    /\ t_pc = "ready"
    /\ t_calls < MaxCalls
    /\ \E b \in Batches(t_ns) :
          /\ t_traces' = b.traces
          /\ t_y' = b.y
          /\ t_given' = t_given \o
                [i \in 1..Min(Len(b.traces), Len(b.y)) |->
                    [row |-> b.traces[i], y |-> b.y[i]]]
    /\ t_pc' = "row"
    /\ t_row' = 1
    /\ t_calls' = t_calls + 1
    /\ UNCHANGED <<t_ns, t_d, t_cs, t_n_samples, t_s, t_pos, t_n,
                   t_delta_pows, t_fed, t_before>>

\* the next row: the assertion on its label, the count of its class
\* (lines 62-80)
RowBegin ==
    /\ t_pc = "row"
    /\ t_row <= n_rows(t_traces, t_y)
    /\ LET c == label_of(t_y, t_row)
       IN IF ~label_ok(c)
          THEN /\ t_pc' = "panicked"
               /\ UNCHANGED <<t_n_samples, t_n, t_s, t_fed, t_before>>
          ELSE /\ t_pc' = "sample"
               /\ t_n_samples' = [t_n_samples EXCEPT ![c + 1] = @ + 1]
               /\ t_n' = t_n_samples[c + 1] + 1
               /\ t_s' = 1
               /\ t_fed' = Append(t_fed, [row |-> t_traces[t_row],
                                          y |-> t_y[t_row]])
               /\ t_before' = [cs |-> t_cs, n_samples |-> t_n_samples]
    /\ UNCHANGED <<t_ns, t_d, t_cs, t_traces, t_y, t_row, t_pos,
                   t_delta_pows, t_calls, t_given>>

\* the next trace sample of the row: delta and its powers (lines 95-105)
SampleBegin ==
    /\ t_pc = "sample"
    /\ LET c == slice_class(label_of(t_y, t_row))
       IN /\ t_s <= n_zipped(t_cs[c], t_traces[t_row])
          /\ t_delta_pows' =
                ttest_delta_pows(
                    ttest_delta(t_cs[c][t_s], t_traces[t_row][t_s], t_n), t_d)
    /\ t_pos' = 1
    /\ t_pc' = "order"
    /\ UNCHANGED <<t_ns, t_d, t_cs, t_n_samples, t_traces, t_y, t_row, t_s,
                   t_n, t_calls, t_given, t_fed, t_before>>

\* one order of the one-pass rule (lines 108-124)
OrderStep ==
    /\ t_pc = "order"
    /\ t_pos <= Len(cbs(t_d))
    /\ LET c == slice_class(label_of(t_y, t_row))
       IN t_cs' = [t_cs EXCEPT ![c][t_s] =
                      order_update(@, cbs(t_d)[t_pos],
                                   ttest_mults(t_d, t_n)[t_pos], t_n,
                                   t_delta_pows)]
    /\ t_pos' = t_pos + 1
    /\ UNCHANGED <<t_ns, t_d, t_n_samples, t_pc, t_traces, t_y, t_row, t_s,
                   t_n, t_delta_pows, t_calls, t_given, t_fed, t_before>>

\* cs[0] += delta (line 125), then on to the next sample
MeanStep ==
    /\ t_pc = "order"
    /\ t_pos > Len(cbs(t_d))
    /\ LET c == slice_class(label_of(t_y, t_row))
       IN t_cs' = [t_cs EXCEPT ![c][t_s] = mean_update(@, t_delta_pows[1])]
    /\ t_s' = t_s + 1
    /\ t_pc' = "sample"
    /\ UNCHANGED <<t_ns, t_d, t_n_samples, t_traces, t_y, t_row, t_pos, t_n,
                   t_delta_pows, t_calls, t_given, t_fed, t_before>>

\* the zip over the samples is exhausted: the row is done
RowEnd ==
    /\ t_pc = "sample"
    /\ t_s > n_zipped(t_cs[slice_class(label_of(t_y, t_row))],
                      t_traces[t_row])
    /\ t_row' = t_row + 1
    /\ t_pc' = "row"
    /\ UNCHANGED <<t_ns, t_d, t_cs, t_n_samples, t_traces, t_y, t_s, t_pos,
                   t_n, t_delta_pows, t_calls, t_given, t_fed, t_before>>

\* the zip over the rows is exhausted: update returns (line 132)
ReturnUpdate ==
    /\ t_pc = "row"
    /\ t_row > n_rows(t_traces, t_y)
    /\ t_pc' = "ready"
    /\ UNCHANGED <<t_ns, t_d, t_cs, t_n_samples, t_traces, t_y, t_row, t_s,
                   t_pos, t_n, t_delta_pows, t_calls, t_given, t_fed,
                   t_before>>

(***************************************************************************)
(* Specifications.                                                         *)
(***************************************************************************)
NextHelpers ==
    \/ CallPrimeFactors /\ UNCHANGED <<wvars, kvars, bvars, tvars>>
    \/ CallFindGen /\ UNCHANGED <<wvars, kvars, bvars, tvars>>
    \/ CallGenLogTable /\ UNCHANGED <<wvars, kvars, bvars, tvars>>

InitSpecHelpers ==
    InitHelpers /\ FwhtIdle /\ KernelIdle /\ BpIdle /\ TtestIdle

SpecHelpers == InitSpecHelpers /\ [][NextHelpers]_vars

NextFwht == ApplyFwht /\ UNCHANGED <<hvars, kvars, bvars, tvars>>

InitSpecFwht ==
    InitFwht /\ HelpersIdle /\ KernelIdle /\ BpIdle /\ TtestIdle

SpecFwht == InitSpecFwht /\ [][NextFwht]_vars

NextKernel == FunctionUpdate /\ UNCHANGED <<hvars, wvars, bvars, tvars>>

InitSpecKernel ==
    InitKernel /\ HelpersIdle /\ FwhtIdle /\ BpIdle /\ TtestIdle

SpecKernel == InitSpecKernel /\ [][NextKernel]_vars

Next ==
    \/ RunBpSetup /\ UNCHANGED <<hvars, wvars, kvars, tvars>>
    \/ BeginIteration /\ UNCHANGED <<hvars, wvars, kvars, tvars>>
    \/ \E i \in 1..Len(b_functions) :
          FuncBegin(i) /\ UNCHANGED <<hvars, wvars, kvars, tvars>>
    \/ \E i \in 1..Len(b_functions) :
          FuncEnd(i) /\ UNCHANGED <<hvars, wvars, kvars, tvars>>
    \/ BeginVariablePhase /\ UNCHANGED <<hvars, wvars, kvars, tvars>>
    \/ \E i \in 1..Len(b_variables) :
          VarBegin(i) /\ UNCHANGED <<hvars, wvars, kvars, tvars>>
    \/ \E i \in 1..Len(b_variables) :
          VarEnd(i) /\ UNCHANGED <<hvars, wvars, kvars, tvars>>
    \/ EndIteration /\ UNCHANGED <<hvars, wvars, kvars, tvars>>
    \/ Return /\ UNCHANGED <<hvars, wvars, kvars, tvars>>

Init == InitBp /\ HelpersIdle /\ FwhtIdle /\ KernelIdle /\ TtestIdle

Spec == Init /\ [][Next]_vars

NextTtest ==
    \/ CallUpdate /\ UNCHANGED <<hvars, wvars, kvars, bvars>>
    \/ RowBegin /\ UNCHANGED <<hvars, wvars, kvars, bvars>>
    \/ SampleBegin /\ UNCHANGED <<hvars, wvars, kvars, bvars>>
    \/ OrderStep /\ UNCHANGED <<hvars, wvars, kvars, bvars>>
    \/ MeanStep /\ UNCHANGED <<hvars, wvars, kvars, bvars>>
    \/ RowEnd /\ UNCHANGED <<hvars, wvars, kvars, bvars>>
    \/ ReturnUpdate /\ UNCHANGED <<hvars, wvars, kvars, bvars>>

InitSpecTtest ==
    InitTtest /\ HelpersIdle /\ FwhtIdle /\ KernelIdle /\ BpIdle

SpecTtest == InitSpecTtest /\ [][NextTtest]_vars

(***************************************************************************)
(* Reference notions used by the properties.                               *)
(***************************************************************************)
IsPrime(n) == n >= 2 /\ \A k \in 2..(n - 1) : n % k # 0

\* the multiplicative order of g modulo p (g coprime to p)
MultOrder(g, p) ==
    LET ks == {k \in 1..p : mod_exp(g, k, p) = 1}
    IN  IF ks = {} THEN p + 1 ELSE CHOOSE k \in ks : \A j \in ks : k <= j

Range(s) == {s[x] : x \in 1..Len(s)}

\* the primes dividing n
PrimeDivisors(n) == {q \in 2..n : IsPrime(q) /\ n % q = 0}

StrictlyIncreasing(s) == \A x \in 1..(Len(s) - 1) : s[x] < s[x + 1]

\* two rows are equal up to a positive scale factor
Proportional(a, b) ==
    /\ \A i \in 1..Len(a) : IsZero(a[i]) <=> IsZero(b[i])
    /\ \A i, j \in 1..Len(a) : VMul(a[i], b[j]) = VMul(a[j], b[i])

(***************************************************************************)
(* Properties of the group-theory helpers (SpecHelpers).                   *)
(***************************************************************************)
\* C2: for every prime p, find_gen(p) is non-empty and its first element
\* has multiplicative order exactly p-1 modulo p.
C2_FindGenPrimitiveRoot ==
    (h_op = "find_gen" /\ IsPrime(h_arg)) =>
        /\ h_res # <<>>
        /\ MultOrder(h_res[1], h_arg) = h_arg - 1

\* C3: for every order >= 2, prime_factors(order) lists exactly the primes
\* dividing order, each once, in increasing order.
C3_PrimeFactorsDistinct ==
    (h_op = "prime_factors" /\ h_arg >= 2) =>
        /\ Range(h_res) = PrimeDivisors(h_arg)
        /\ StrictlyIncreasing(h_res)

\* C5: for every prime p >= 5, gen_log_table(p) returns p-1 entries, the
\* first of them 1, that are a permutation of 1..p-1.
C5_LogTablePermutation ==
    (h_op = "gen_log_table" /\ IsPrime(h_arg) /\ h_arg >= 5) =>
        /\ ~h_panic
        /\ Len(h_res) = h_arg - 1
        /\ h_res[1] = 1
        /\ Range(h_res) = 1..(h_arg - 1)

(***************************************************************************)
(* Properties of the function kernels (SpecKernel).                        *)
(***************************************************************************)
KNc == NcOf(k_edge[1])
KRuns == RunsOf(k_edge[1])
KRan == k_pc \in {"done", "panic"}

\* C4 as stated: for every nc >= 2 a MUL function (on its three edges) is
\* updated by mults iff nc is prime and by naive iff nc is composite.
C4_MulKernelByPrimality ==
    (KRan /\ k_function.kind = "MUL" /\ Len(k_edge) = 3) =>
        /\ k_kernel = "mults" <=> IsPrime(KNc)
        /\ k_kernel = "naive" <=> ~IsPrime(KNc)

\* C4 amended: the same for every nc >= 3 (nc = 2 is prime and is updated
\* by naive).
C4_MulKernelByPrimalityFrom3 ==
    (KRan /\ k_function.kind = "MUL" /\ Len(k_edge) = 3 /\ KNc >= 3) =>
        /\ k_kernel = "mults" <=> IsPrime(KNc)
        /\ k_kernel = "naive" <=> ~IsPrime(KNc)

\* C4 witness: a MUL function with prime nc >= 5 went through mults.
C4_Witness ==
    /\ k_pc = "done" /\ k_function.kind = "MUL"
    /\ KNc = 5 /\ k_kernel = "mults"

\* C6: for ADDCST(v), every run r and every class: the new input message
\* at i1 is the old output message at (i1 + v[r]) mod nc, and the new
\* output message at o is the old input message at (o - v[r]) mod nc.
C6_AddCstShift ==
    (k_pc = "done" /\ k_function.kind = "ADDCST") =>
        \A r \in 1..KRuns : \A c \in 0..(KNc - 1) :
            LET v == k_function.values[r]
            IN /\ At(k_edge[2][r], c) = At(k_pre[1][r], (c + v) % KNc)
               /\ At(k_edge[1][r], c) = At(k_pre[2][r], (c + KNc - v) % KNc)

\* C6 witness: ADDCST ran on two runs with different non-zero constants
\* and messages whose entries are pairwise distinct.
C6_Witness ==
    /\ k_pc = "done" /\ k_function.kind = "ADDCST"
    /\ KRuns = 2 /\ KNc = 4
    /\ k_function.values = <<1, 3>>
    /\ k_pre[2][1] = <<F64(9), F64(10), F64(11), F64(12)>>

KIdentityLookup ==
    /\ k_pc = "done" /\ k_function.kind = "LOOKUP"
    /\ \A x \in 1..KNc : k_function.values[x] = x - 1

\* C7 as stated: for a LOOKUP with the identity table, each message after
\* the kernel is proportional to the same message before the kernel.
C7_IdentityLookupUnchanged ==
    KIdentityLookup =>
        \A r \in 1..KRuns :
            /\ Proportional(k_edge[1][r], k_pre[1][r])
            /\ Proportional(k_edge[2][r], k_pre[2][r])

\* C7 amended: for a LOOKUP with the identity table the kernel exchanges
\* the two messages: the output message becomes the old input message and
\* the input message becomes the old output message.
C7_IdentityLookupExchanges ==
    KIdentityLookup =>
        /\ k_edge[1] = k_pre[2]
        /\ k_edge[2] = k_pre[1]

\* C7 witness: an identity LOOKUP ran on two messages that were not
\* proportional to each other.
C7_Witness ==
    /\ KIdentityLookup
    /\ KNc >= 3
    /\ ~Proportional(k_pre[1][1], k_pre[2][1])

(***************************************************************************)
(* Properties of the Walsh-Hadamard transform (SpecFwht).                  *)
(***************************************************************************)
\* C8: for len a power of two, fwht applied twice multiplies the vector by
\* len.
C8_FwhtInvolution ==
    w_count = 2 => w_a = [x \in 1..w_len |-> w_len * w_orig[x]]

\* C8 witness: fwht was applied twice to a non-constant vector of length 4.
C8_Witness ==
    /\ w_count = 2 /\ w_len = 4
    /\ w_orig = <<1, 0, -1, 1>>

(***************************************************************************)
(* Properties of run_bp (Spec).                                            *)
(***************************************************************************)
\* the number of neighbors a function of this kind takes
Arity(kind) == IF kind \in {"AND", "MUL"} THEN 3 ELSE 2

\* every neighbor is an edge id, every edge id is referenced exactly once
\* among the functions and exactly once among the variables, and every
\* function has the neighbor count of its kind
ValidTopology ==
    /\ ~setup_panics(b_functions, b_variables, b_edge)
    /\ \A e \in 0..(b_edge - 1) :
          /\ Occurrences(b_functions, e) = 1
          /\ Occurrences(b_variables, e) = 1
    /\ \A i \in 1..Len(b_functions) :
          Len(b_functions[i].neighboors) = Arity(b_functions[i].kind)

\* C1: whenever the topology is invalid, run_bp neither aborts nor runs an
\* iteration nor returns Ok: it returns Err.
C1_TopologyErrorSurfaced ==
    ~ValidTopology =>
        /\ b_pc \notin {"panicked", "func", "var"}
        /\ b_pc = "returned" => b_result = "Err"

\* the graph of C9: one XORCST function, a profiled para variable on its
\* input edge, an unprofiled para variable on its output edge; run_bp has
\* returned from one iteration
XorCstScenario ==
    /\ b_pc = "returned" /\ b_it = 1
    /\ ValidTopology
    /\ Len(b_functions) = 1 /\ b_functions[1].kind = "XORCST"
    /\ Len(b_variables) = 2
    /\ b_variables[1].vartype = "ProfilePara"
    /\ b_variables[1].neighboors = <<b_functions[1].neighboors[2]>>
    /\ b_variables[2].vartype = "NotProfilePara"
    /\ b_variables[2].neighboors = <<b_functions[1].neighboors[1]>>

\* the prior entry that XORCST maps to class o in run r
ShiftedPrior(r, o) ==
    At(b_variables[1].distri_orig[r], BitXor(o, b_functions[1].values[r]))

\* C9 as stated: the posterior of the unprofiled variable is the prior
\* shifted by the constant, distri_current[run][o] = p[run][o XOR v[run]].
C9_PosteriorIsShiftedPrior ==
    XorCstScenario =>
        \A r \in 1..b_n : \A o \in 0..(b_nc - 1) :
            At(b_variables[2].distri_current[r], o) = ShiftedPrior(r, o)

\* C9 amended: the posterior is the shifted prior divided by the sum of
\* its row and raised to MIN_PROBA where that is smaller.
C9_PosteriorIsShiftedNormalizedPrior ==
    XorCstScenario =>
        \A r \in 1..b_n : \A o \in 0..(b_nc - 1) :
            At(b_variables[2].distri_current[r], o) =
                VMaxMinProba(VDiv(ShiftedPrior(r, o),
                                  VSum(b_variables[1].distri_orig[r])))

\* C9 witness: the scenario with nc = 4, two runs with different constants
\* and a prior whose entries are pairwise distinct.
C9_Witness ==
    /\ XorCstScenario
    /\ b_nc = 4 /\ b_n = 2
    /\ b_functions[1].values = <<1, 2>>
    /\ b_variables[1].distri_orig[1] = PriorRow("ramp", 4, 0)

\* C10: a variable begins its t-th update only after every function has
\* finished its t-th, a function begins its (t+1)-th update only after
\* every variable has finished its t-th, and when run_bp returns every
\* function and every variable has been updated exactly it times.
C10_PhasesAlternate ==
    /\ \A f \in 1..Len(b_functions) : \A v \in 1..Len(b_variables) :
          /\ b_begun.v[v] <= b_ended.f[f]
          /\ b_begun.f[f] <= b_ended.v[v] + 1
    /\ b_pc = "returned" =>
          /\ b_iter = b_it
          /\ \A f \in 1..Len(b_functions) : b_ended.f[f] = b_it
          /\ \A v \in 1..Len(b_variables) : b_ended.v[v] = b_it

\* C10 witness: run_bp returned from two iterations over a graph with two
\* functions and three variables.
C10_Witness ==
    /\ b_pc = "returned" /\ b_it = 2
    /\ Len(b_functions) = 2 /\ Len(b_variables) = 3
    /\ \A f \in 1..2 : b_ended.f[f] = 2

(***************************************************************************)
(* Ownership of the edge buffers (Spec).                                   *)
(***************************************************************************)
\* the edge buffers task i of a phase holds &mut references to
Holds(nodes, i) == Range(nodes[i].neighboors)

\* the nodes whose tasks are running in the current phase
PhaseNodes ==
    IF b_pc = "func" THEN b_functions
    ELSE IF b_pc = "var" THEN b_variables
    ELSE <<>>

\* C11: in the function phase no two running function tasks hold the same
\* edge buffer, in the variable phase no two running variable tasks do, and
\* no task holds one buffer twice -- whatever the order in which the tasks
\* of the phase start and finish.
C11_EdgeBuffersExclusive ==
    b_pc \in {"func", "var"} =>
        /\ \A i, j \in b_active :
              i # j => Holds(PhaseNodes, i) \cap Holds(PhaseNodes, j) = {}
        /\ \A i \in b_active :
              Cardinality(Holds(PhaseNodes, i)) = Len(PhaseNodes[i].neighboors)

\* C11 witness: the two function tasks of a chain graph are running at
\* once.
C11_Witness ==
    /\ b_pc = "func" /\ Len(b_functions) = 2
    /\ b_active = {1, 2}

(***************************************************************************)
(* Properties of the moment accumulator (SpecTtest).                       *)
(***************************************************************************)
\* the traces and the labels of a history of labelled rows
RowsOf(h) == [i \in 1..Len(h) |-> h[i].row]
LabelsOf(h) == [i \in 1..Len(h) |-> h[i].y]

\* the accumulator one call of update builds from scratch out of the rows h
OneCall(h) == Ttest_update(Ttest_new(t_ns, t_d), t_d, RowsOf(h), LabelsOf(h))

\* C12: update fails on a row whose label is not 0 or 1 -- a call handed
\* such a row never returns normally, and it stops at that row -- and no
\* such row is accumulated: the accumulated rows all have label 0 or 1,
\* N counts exactly them, and after the failure cs and N are what the rows
\* accumulated before it make them.
C12_InvalidLabelRejected ==
    /\ t_pc = "ready" => \A i \in 1..Len(t_given) : t_given[i].y \in {0, 1}
    /\ \A i \in 1..Len(t_fed) : t_fed[i].y \in {0, 1}
    /\ t_n_samples[1] + t_n_samples[2] = Len(t_fed)
    /\ t_pc = "panicked" =>
          /\ t_y[t_row] \notin {0, 1}
          /\ t_cs = OneCall(t_fed).cs
          /\ t_n_samples = OneCall(t_fed).n_samples

\* C12 witness: update failed on the third row of its second batch, after
\* rows of both classes were accumulated.
C12_Witness ==
    /\ t_pc = "panicked" /\ t_calls = 2 /\ t_row = 3
    /\ t_n_samples[1] > 0 /\ t_n_samples[2] > 0

\* C13: update fails when the traces do not have ns columns: no row of
\* another width is accumulated, and a call handed such rows never returns
\* normally.
C13_ShapeMismatchRejected ==
    /\ \A i \in 1..Len(t_fed) : Len(t_fed[i].row) = t_ns
    /\ t_pc = "ready" => \A i \in 1..Len(t_given) : Len(t_given[i].row) = t_ns

\* the samples of class c update was handed at trace sample s, in order
Observed(c, s) ==
    LET h == SelectSeq(t_fed, LAMBDA e : e.y = c /\ Len(e.row) >= s)
    IN [i \in 1..Len(h) |-> h[i].row[s]]

RECURSIVE SumInts(_, _)
SumInts(xs, i) == IF i > Len(xs) THEN 0 ELSE xs[i] + SumInts(xs, i + 1)

\* two-pass reference: the mean, then the sum of the squared deviations
TwoPassMean(xs) == Frac(0, SumInts(xs, 1), Len(xs))

RECURSIVE SumSqDev(_, _, _)
SumSqDev(xs, m, i) ==
    IF i > Len(xs) THEN Zero
    ELSE LET dev == VSub(F64(xs[i]), m)
         IN VAdd(VMul(dev, dev), SumSqDev(xs, m, i + 1))

TwoPassSsd(xs) == SumSqDev(xs, TwoPassMean(xs), 1)

\* class 0 was fed [1, 2, 3] and class 1 [5, 6, 7], with ns = 1 and d = 1
FedSpecExample ==
    /\ t_pc = "ready" /\ t_ns = 1 /\ t_d = 1
    /\ Observed(0, 1) = <<1, 2, 3>>
    /\ Observed(1, 1) = <<5, 6, 7>>

\* C14: whenever update has returned, for every class c and trace sample s
\* at which class c has samples, cs[c,s,0] is their mean and cs[c,s,1] the
\* sum of their squared deviations from it; in the example of the spec
\* cs[0,0,0] = 2, cs[1,0,0] = 6 and cs[0,0,1] = cs[1,0,1] = 2.
C14_MomentsMatchTwoPass ==
    /\ t_pc = "ready" =>
          \A c \in 0..1 : \A s \in 1..t_ns :
              Observed(c, s) # <<>> =>
                  /\ At(t_cs[c + 1][s], 0) = TwoPassMean(Observed(c, s))
                  /\ At(t_cs[c + 1][s], 1) = TwoPassSsd(Observed(c, s))
    /\ FedSpecExample =>
          /\ t_cs[1][1] = <<F64(2), F64(2)>>
          /\ t_cs[2][1] = <<F64(6), F64(2)>>

(***************************************************************************)
(* Normalization of the messages and posteriors (Spec).                    *)
(***************************************************************************)
\* a row whose entries are all >= MIN_PROBA and sum to 1
NormalizedRow(row) ==
    /\ \A i \in 1..Len(row) : IsFinite(row[i]) /\ GeMinProba(row[i])
    /\ VSum(row) = One

\* C15: once an iteration of run_bp is complete (VariableUpdate has run on
\* every variable of a graph with a valid topology), every row of every
\* edge message and of every variable's distri_current has all entries
\* >= MIN_PROBA and sums to 1.
C15_RowsNormalized ==
    (ValidTopology /\ b_pc \in {"loop", "returned"} /\ b_iter >= 1) =>
        /\ \A e \in 1..Len(b_edges) : \A r \in 1..Len(b_edges[e]) :
              NormalizedRow(b_edges[e][r])
        /\ \A v \in 1..Len(b_variables) :
              \A r \in 1..Len(b_variables[v].distri_current) :
                  NormalizedRow(b_variables[v].distri_current[r])

\* C16: whenever update has returned, cs and N are those one single call
\* of update on all the rows handed in so far, in the same order, leaves in
\* a fresh accumulator -- in particular after two calls on the two halves
\* of a batch.
C16_SplitEqualsOneBatch ==
    t_pc = "ready" =>
        /\ ~OneCall(t_given).panic
        /\ t_cs = OneCall(t_given).cs
        /\ t_n_samples = OneCall(t_given).n_samples

\* C16 witness: six rows of both classes were fed as two calls of three
\* rows, with two trace samples and d = 2.
C16_Witness ==
    /\ t_pc = "ready" /\ t_calls = 2 /\ Len(t_given) = 6
    /\ t_ns = 2 /\ t_d = 2
    /\ t_n_samples[1] >= 2 /\ t_n_samples[2] >= 2

\* the row of cs under update, now and before the current (row, sample)
CurRow == t_cs[slice_class(label_of(t_y, t_row))][t_s]
PreRow == t_before.cs[slice_class(label_of(t_y, t_row))][t_s]

\* C17: within the update of one (row, trace sample) pair the orders are
\* visited from 2*d down to 2; every entry cs[j-k-1] a k-term of the next
\* order j is about to read still holds its value from before this pair's
\* update and is never the mean cs[0]; and the mean keeps its old value
\* until every order has been updated.
C17_HighestOrderFirst ==
    t_pc = "order" =>
        /\ \A p \in 1..Len(cbs(t_d)) : cbs(t_d)[p].j = 2 * t_d + 1 - p
        /\ At(CurRow, 0) = At(PreRow, 0)
        /\ t_pos <= Len(cbs(t_d)) =>
              LET cb == cbs(t_d)[t_pos]
              IN \A x \in 1..Len(cb.vec) :
                    LET read == cb.j - cb.vec[x].k - 1
                    IN /\ read >= 1
                       /\ At(CurRow, read) = At(PreRow, read)

\* C17 witness: with d = 2, order 4 of a row has been updated (its sum has
\* changed) and order 3, whose k-term reads the sum of order 2, is next.
C17_Witness ==
    /\ t_pc = "order" /\ t_d = 2 /\ t_pos = 2 /\ t_n >= 2
    /\ At(CurRow, 3) # At(PreRow, 3)
    /\ At(PreRow, 1) # Zero

\* the number of accumulated rows with label c
FedWithLabel(c) == Len(SelectSeq(t_fed, LAMBDA e : e.y = c))

\* C19: N[c] is the number of rows with label c processed so far, and the
\* row processed last (or in progress), of label c, has incremented N[c] by
\* one and left N[1-c] and cs[1-c,*,*] as they were before it.
C19_RowTouchesOwnClassOnly ==
    t_pc # "idle" =>
        /\ \A c \in 0..1 : t_n_samples[c + 1] = FedWithLabel(c)
        /\ t_fed # <<>> =>
              LET c == t_fed[Len(t_fed)].y
              IN /\ t_n_samples[c + 1] = t_before.n_samples[c + 1] + 1
                 /\ t_n_samples[2 - c] = t_before.n_samples[2 - c]
                 /\ t_cs[2 - c] = t_before.cs[2 - c]

\* C19 witness: a row of class 1 has just been processed, it changed the
\* sums of class 1, and class 0 holds earlier rows.
C19_Witness ==
    /\ t_pc = "row" /\ t_row > 1
    /\ t_fed # <<>> /\ t_fed[Len(t_fed)].y = 1
    /\ t_cs[2] # t_before.cs[2]
    /\ t_n_samples[1] >= 2
    /\ t_cs[1] # Ttest_new(t_ns, t_d).cs[1]

(***************************************************************************)
(* The 0-th entries of the prime-nc MUL kernel (SpecKernel).               *)
(***************************************************************************)
\* C18: when a MUL function with prime nc has been updated by mults, the
\* 0-th entry of every run of its output, input1 and input2 messages is the
\* 0-th entry naive computes from the messages before the update: the
\* zero-entry pass accumulates every pair (i1, i2) with i1 = 0 or i2 = 0,
\* (0, 0) included, exactly once.
C18_ZeroEntriesAsNaive ==
    (k_pc = "done" /\ k_function.kind = "MUL" /\ k_kernel = "mults"
       /\ Len(k_edge) = 3) =>
        \A e \in 1..3 : \A r \in 1..KRuns :
            At(k_edge[e][r], 0) = At(naive(k_pre, "MUL")[e][r], 0)

\* C18 witness: mults ran with nc = 5 on two runs of messages whose entries
\* are pairwise distinct and non-zero.
C18_Witness ==
    /\ k_pc = "done" /\ k_function.kind = "MUL" /\ k_kernel = "mults"
    /\ KNc = 5 /\ KRuns = 2 /\ Len(k_edge) = 3
    /\ k_pre[1][1] = <<F64(1), F64(2), F64(3), F64(4), F64(5)>>
    /\ At(k_edge[3][2], 0) # At(k_pre[3][2], 0)

=============================================================================
